---- MODULE Spec2Model ----
(***************************************************************************)
(* Astro browser (src/src/Options.ts): the session context `Astro`, its    *)
(* frame-chain walk (getPageOrFrame), the polling element resolution       *)
(* (static waitItem), the interaction helpers, waitLoad, contentFrame, and *)
(* the lifecycle (init / close / abort listener), and the selector builder *)
(* `Item` with its compilation toCSSSelector.                              *)
(*                                                                         *)
(* The controlled browser (puppeteer) is the environment: every protocol   *)
(* round-trip is answered by a nondeterministic choice among the answers   *)
(* puppeteer can give (a candidate list, a nested frame or none, or a      *)
(* rejection); once the browser process is closed every round-trip rejects.*)
(* Undefined fields are 0; handles and references are positive numbers.    *)
(***************************************************************************)
EXTENDS Integers, Sequences, FiniteSets, TLC

\* ---------------------------------------------------------------- bounds
MaxWaits == 2      \* 200 ms backoff waits followed within one call
MaxChain == 1      \* longest navigation chain of a pre-built context
NElems == 2        \* elements a structural query can return (document order)
NFrames == 1       \* nested browsing contexts besides the top-level page
MaxAstros == 3     \* Astro objects on the heap
MaxCloses == 2     \* explicit close() calls followed
MaxListeners == 1  \* "abort" listeners registered on the signal
MaxTime == 6000    \* clock horizon of waitLoad (ms)
MaxResponses == 3  \* response events counted while waitLoad is pending
ClockStep == 200   \* granularity of the clock (ms)
NItems == 2        \* Item objects constructed
MaxParts == 3      \* fields set and list entries pushed, over all Items

\* ------------------------------------------------------ program constants
Backoff == 200         \* setTimeout(r, 200) of both retry loops
QuietWindow == 2000    \* const t = 2_000 of waitLoad

VARIABLES
  astros,    \* heap of Astro objects: [browser, page, chain, session]
  arrays,    \* heap of Item[] arrays a _frameSelector field refers to
  proc,      \* the browser process: [launches, closes, open]
  signal,    \* option.signal: [aborted, reason, listeners]
  waitings,  \* AbortedError.waitings: the closing promises pushed onto it
  call,      \* the async call in flight and its position
  wi,        \* the running invocation of static waitItem
  obs,       \* what the call has done so far (queries, waits, the walk's pass)
  clock,     \* waitLoad: [now, pending, timer, events, resolvedAt]
  itemHeap,  \* heap of Item objects (the selector builder)
  compiled   \* the last toCSSSelector() call: its receiver and what it gave

vars == <<astros, arrays, proc, signal, waitings, call, wi, obs, clock, itemHeap, compiled>>

\* ------------------------------------------------------------------ Item
NoText == <<>>
Pattern == <<"a">>
Texts == {<<"b">>, <<"b", "a">>}

\* elm.innerText of an element that is not an HTMLElement (svg, math): the
\* property does not exist and the evaluation gives undefined
Undefined == <<"undefined">>

\* class Item: the structural selector is kept as a number here, matchText as
\* a pattern (NoText when the field is unset).
Items == {[sel |-> 1, matchText |-> NoText], [sel |-> 2, matchText |-> Pattern]}

\* String.prototype.match with a string pattern: the pattern occurs in t.
Match(t, p) ==
  \E i \in 0..(Len(t) - Len(p)) : \A j \in 1..Len(p) : t[i + j] = p[j]

\* ----------------------------------------------------------- environment
\* a candidate of a query: its place in document order and its innerText
Elements == [id : 1..NElems, text : Texts \cup {Undefined}]

RECURSIVE DocLists(_)
\* candidate lists in document order over element ids > k
DocLists(k) ==
  {<<>>} \cup
  UNION {{<<e>> \o rest : rest \in DocLists(e.id)} : e \in {x \in Elements : x.id > k}}

CandLists == DocLists(0)

Throws == [ok |-> FALSE, cands |-> <<>>, frame |-> {}]

\* answers of the query of static waitItem for `item`: mainPage.$ gives one
\* element or null, mainPage.$$ (with the innerText evaluations) the candidates
\* in document order; either rejects
QueryAnswers(item, open) ==
  {Throws} \cup
  (IF ~open THEN {}
   ELSE IF item.matchText # NoText
   THEN {[ok |-> TRUE, cands |-> c, frame |-> {}] : c \in CandLists}
   ELSE {[ok |-> TRUE, cands |-> c, frame |-> {}] :
           c \in {<<>>} \cup {<<[id |-> k, text |-> NoText]>> : k \in 1..NElems}})

\* answers of ElementHandle.contentFrame()
FrameAnswers(open) ==
  {Throws} \cup
  (IF open
   THEN {[ok |-> TRUE, cands |-> <<>>, frame |-> f] : f \in {{}} \cup {{n} : n \in 1..NFrames}}
   ELSE {})

\* what elm.attributes[attribute] evaluates to in the page: the Attr of that
\* name, undefined, or a member of NamedNodeMap itself (length, item, an index,
\* ...), which the property lookup finds whether or not the element has an
\* attribute of that name
Lookups == {"Attr", "undefined", "member"}

\* answers of click / type / evaluate on a resolved element; `lookup` is read
\* by getValueOfAttribute only
ActAnswers(op, open) ==
  {[ok |-> FALSE, lookup |-> ""]} \cup
  (IF ~open THEN {}
   ELSE IF op = "getValueOfAttribute" THEN {[ok |-> TRUE, lookup |-> l] : l \in Lookups}
   ELSE {[ok |-> TRUE, lookup |-> ""]})

SetMin(S) == CHOOSE x \in S : \A y \in S : x <= y

\* ------------------------------------------------------------ heap access
Chain(a) == arrays[astros[a].chain]
HasChain(a) == astros[a].chain # 0

Idle ==
  [op |-> "none", self |-> 0, item |-> <<>>, sig |-> FALSE, pc |-> "idle", p |-> 0,
   idx |-> 0, rel |-> 0, elm |-> <<>>, made |-> 0, err |-> "", chain0 |-> <<>>,
   lookup |-> "", ret |-> <<>>]

NoWait == [item |-> <<>>, frame |-> 0, queries |-> 0, waits |-> 0, slept |-> 0,
           misses |-> 0, last |-> Throws, status |-> "none", err |-> ""]

NoObs == [queries |-> 0, waits |-> 0, closedCall |-> FALSE, noFrame |-> FALSE,
          pass |-> <<>>]

NoClock == [now |-> 0, pending |-> {}, timer |-> {}, events |-> <<>>, resolvedAt |-> {}]

\* ------------------------------------------------------- static waitItem
\* the rejection a protocol round-trip ends with
Rejection(open) == IF open THEN "Transient" ELSE "SessionClosed"

\* static waitItem is entered for `item` against the page or frame `frame`
NewWait(item, frame) == [NoWait EXCEPT !.item = item, !.frame = frame, !.status = "polling"]

\* static waitItem giving up on the first miss instead of waiting (mutant)
WaitItemStepGiveUp(item, ans) ==
  IF ans.ok /\ item.matchText = NoText /\ Len(ans.cands) > 0
  THEN [kind |-> "return", elm |-> <<ans.cands[1].id>>, err |-> ""]
  ELSE [kind |-> "throw", elm |-> <<>>, err |-> "Rejected"]

\* One iteration of the while (true) of static waitItem, given the answer `ans`
\* of its query: return the element, fall through to the 200 ms wait, or let
\* an error escape (the loop has no try/catch): the rejection of the query, or
\* the TypeError of t.match(...) on a candidate whose innerText is undefined.
\* The for loop ends at the first candidate that returns or throws.
WaitItemStep(item, ans) ==
  IF ~ans.ok
  THEN [kind |-> "throw", elm |-> <<>>, err |-> "Rejected"]
  ELSE IF item.matchText # NoText
  THEN LET stops == {i \in 1..Len(ans.cands) :
                       \/ ans.cands[i].text = Undefined
                       \/ Match(ans.cands[i].text, item.matchText)}
       IN IF stops = {}
          THEN [kind |-> "sleep", elm |-> <<>>, err |-> ""]
          ELSE IF ans.cands[SetMin(stops)].text = Undefined
          THEN [kind |-> "throw", elm |-> <<>>, err |-> "TypeError"]
          ELSE [kind |-> "return", elm |-> <<ans.cands[SetMin(stops)].id>>, err |-> ""]
  ELSE IF Len(ans.cands) > 0
  THEN [kind |-> "return", elm |-> <<ans.cands[1].id>>, err |-> ""]
  ELSE [kind |-> "sleep", elm |-> <<>>, err |-> ""]

\* the invocation record after that iteration
WaitItemPoll(w, ans, open) ==
  LET r == WaitItemStep(w.item, ans)
      q == [w EXCEPT !.queries = @ + 1, !.last = ans]
  IN CASE r.kind = "return" -> [q EXCEPT !.status = "returned"]
       [] r.kind = "sleep" -> [q EXCEPT !.status = "sleeping", !.misses = @ + 1]
       [] OTHER -> [q EXCEPT !.status = "threw",
                             !.err = IF r.err = "TypeError" THEN r.err ELSE Rejection(open)]

\* await new Promise((r) => setTimeout(r, 200)) of static waitItem has elapsed
WaitItemWake(w) ==
  [w EXCEPT !.status = "polling", !.waits = @ + 1, !.slept = @ + Backoff]

\* ------------------------------------------------------- getPageOrFrame
\* getPageOrFrame taking an empty array for no array (mutant)
GpfEnterEmptyFails(c) ==
  IF astros[c.self].chain = 0 \/ arrays[astros[c.self].chain] = <<>>
  THEN [c EXCEPT !.pc = "failed", !.err = "Cannot found Page or Frame"]
  ELSE [c EXCEPT !.pc = "walk_start", !.p = astros[c.self].chain]

\* entry of getPageOrFrame: p = this._frameSelector; no array, no walk
GpfEnter(c) ==
  IF astros[c.self].chain = 0
  THEN [c EXCEPT !.pc = "failed", !.err = "Cannot found Page or Frame"]
  ELSE [c EXCEPT !.pc = "walk_start", !.p = astros[c.self].chain]

\* what the call does with the page or frame getPageOrFrame returned
AfterWalk(c) ==
  IF c.op \in {"getPageOrFrame", "contentFrame"}
  THEN [c EXCEPT !.pc = "done"]
  ELSE [c EXCEPT !.pc = "poll"]

AfterWalkWait(c) ==
  IF c.op \in {"getPageOrFrame", "contentFrame"} THEN NoWait ELSE NewWait(c.item, c.rel)

\* what the catch of getPageOrFrame does with an error thrown inside the try
WalkCatch(c, e) == [c EXCEPT !.pc = "walk_backoff", !.elm = <<>>]

\* the walk taken up again at the entry that failed, in the frame reached
\* before the failure (mutant)
WalkStartResume ==
  /\ call.pc = "walk_start"
  /\ IF astros[call.self].page = 0
     THEN /\ call' = WalkCatch(call, "Cannot found page instance")
          /\ wi' = NoWait
          /\ obs' = [obs EXCEPT !.pass = <<>>]
     ELSE LET c == [call EXCEPT !.idx = IF @ = 0 THEN 1 ELSE @, !.elm = <<>>]
          IN /\ obs' = obs
             /\ IF Len(arrays[call.p]) = 0
                THEN call' = AfterWalk(c) /\ wi' = AfterWalkWait(c)
                ELSE /\ call' = [c EXCEPT !.pc = "walk_poll"]
                     /\ wi' = NewWait(arrays[call.p][c.idx], c.rel)
  /\ UNCHANGED <<astros, arrays, proc, signal, waitings, clock, itemHeap, compiled>>

\* head of the try block: relativePage = this.mainPage, then the first entry
WalkStart ==
  /\ call.pc = "walk_start"
  /\ IF astros[call.self].page = 0
     THEN /\ call' = WalkCatch(call, "Cannot found page instance")
          /\ wi' = NoWait
          /\ obs' = [obs EXCEPT !.pass = <<>>]
     ELSE LET c == [call EXCEPT !.rel = 0, !.idx = 1, !.elm = <<>>]
          IN /\ obs' = [obs EXCEPT !.pass = <<>>]
             /\ IF Len(arrays[call.p]) = 0
                THEN call' = AfterWalk(c) /\ wi' = AfterWalkWait(c)
                ELSE /\ call' = [c EXCEPT !.pc = "walk_poll"]
                     /\ wi' = NewWait(arrays[call.p][1], 0)
  /\ UNCHANGED <<astros, arrays, proc, signal, waitings, clock, itemHeap, compiled>>

\* const r = await Astro.waitItem(relativePage, item): one poll of its loop
WalkPoll ==
  /\ call.pc = "walk_poll"
  /\ \E ans \in QueryAnswers(wi.item, proc.open) :
       LET w == WaitItemPoll(wi, ans, proc.open)
           o == [obs EXCEPT !.queries = @ + 1,
                            !.closedCall = @ \/ ~proc.open]
       IN /\ wi' = w
          /\ CASE w.status = "returned" ->
                    /\ call' = [call EXCEPT !.pc = "walk_frame",
                                            !.elm = WaitItemStep(wi.item, ans).elm]
                    /\ obs' = o
               [] w.status = "sleeping" ->
                    /\ call' = [call EXCEPT !.pc = "walk_item_sleep"]
                    /\ obs' = o
               [] OTHER ->
                    /\ call' = WalkCatch(call, w.err)
                    /\ obs' = o
  /\ UNCHANGED <<astros, arrays, proc, signal, waitings, clock, itemHeap, compiled>>

\* the 200 ms wait of the waitItem called from the walk has elapsed
WalkItemWake ==
  /\ call.pc = "walk_item_sleep"
  /\ obs.waits < MaxWaits
  /\ call' = [call EXCEPT !.pc = "walk_poll"]
  /\ wi' = WaitItemWake(wi)
  /\ obs' = [obs EXCEPT !.waits = @ + 1]
  /\ UNCHANGED <<astros, arrays, proc, signal, waitings, clock, itemHeap, compiled>>

\* const e = await r.contentFrame(); if (!e) throw ...; relativePage = e
WalkFrame ==
  /\ call.pc = "walk_frame"
  /\ \E ans \in FrameAnswers(proc.open) :
       LET o == [obs EXCEPT !.queries = @ + 1,
                            !.closedCall = @ \/ ~proc.open]
       IN IF ~ans.ok
          THEN /\ call' = WalkCatch(call, Rejection(proc.open))
               /\ obs' = o
               /\ wi' = NoWait
          ELSE IF ans.frame = {}
          THEN /\ call' = WalkCatch(call, "Failed get content frame")
               /\ obs' = [o EXCEPT !.noFrame = TRUE]
               /\ wi' = NoWait
          ELSE LET f == CHOOSE n \in ans.frame : TRUE
                   c == [call EXCEPT !.rel = f, !.idx = @ + 1, !.elm = <<>>]
                   step == [item |-> arrays[call.p][call.idx], frame |-> call.rel, into |-> f]
               IN /\ obs' = [o EXCEPT !.pass = Append(@, step)]
                  /\ IF c.idx > Len(arrays[call.p])
                     THEN call' = AfterWalk(c) /\ wi' = AfterWalkWait(c)
                     ELSE /\ call' = [c EXCEPT !.pc = "walk_poll"]
                          /\ wi' = NewWait(arrays[call.p][c.idx], f)
  /\ UNCHANGED <<astros, arrays, proc, signal, waitings, clock, itemHeap, compiled>>

\* the 200 ms wait of the catch has elapsed: while (true) starts the walk again
WalkBackoffWake ==
  /\ call.pc = "walk_backoff"
  /\ obs.waits < MaxWaits
  /\ call' = [call EXCEPT !.pc = "walk_start"]
  /\ obs' = [obs EXCEPT !.waits = @ + 1]
  /\ UNCHANGED <<astros, arrays, proc, signal, waitings, clock, wi, itemHeap, compiled>>

\* ------------------------------------------- resolution and interaction
ResolveOps == {"waitItem", "getValueOfAttribute", "getOuterHTML", "click", "type"}

Begin(op, a, item) == [Idle EXCEPT !.op = op, !.self = a, !.item = item]

\* the getter `browser` of Astro a is read
GetBrowser(a) ==
  /\ call.pc = "idle"
  /\ call' = IF astros[a].browser = 0
             THEN [Begin("browser", a, <<>>) EXCEPT
                     !.pc = "failed", !.err = "Cannot found browser instance"]
             ELSE [Begin("browser", a, <<>>) EXCEPT !.pc = "done"]
  /\ wi' = NoWait
  /\ obs' = NoObs
  /\ UNCHANGED <<astros, arrays, proc, signal, waitings, clock, itemHeap, compiled>>

\* the getter `mainPage` of Astro a is read
GetMainPage(a) ==
  /\ call.pc = "idle"
  /\ call' = IF astros[a].page = 0
             THEN [Begin("mainPage", a, <<>>) EXCEPT
                     !.pc = "failed", !.err = "Cannot found page instance"]
             ELSE [Begin("mainPage", a, <<>>) EXCEPT !.pc = "done"]
  /\ wi' = NoWait
  /\ obs' = NoObs
  /\ UNCHANGED <<astros, arrays, proc, signal, waitings, clock, itemHeap, compiled>>

\* getPageOrFrame() is called on Astro a
StartGetPageOrFrame(a) ==
  /\ call.pc = "idle"
  /\ call' = GpfEnter(Begin("getPageOrFrame", a, <<>>))
  /\ wi' = NoWait
  /\ obs' = NoObs
  /\ UNCHANGED <<astros, arrays, proc, signal, waitings, clock, itemHeap, compiled>>

\* waitItem(item), getValueOfAttribute(item, attribute), getOuterHTML(item),
\* click(item), type(item, value) are called on Astro a: each starts with
\* getPageOrFrame()
StartResolve(op, a, item) ==
  /\ call.pc = "idle"
  /\ call' = GpfEnter(Begin(op, a, item))
  /\ wi' = NoWait
  /\ obs' = NoObs
  /\ UNCHANGED <<astros, arrays, proc, signal, waitings, clock, itemHeap, compiled>>

\* one poll of Astro.waitItem(await this.getPageOrFrame(), item); nothing
\* catches what it throws
Poll ==
  /\ call.pc = "poll"
  /\ \E ans \in QueryAnswers(wi.item, proc.open) :
       LET w == WaitItemPoll(wi, ans, proc.open) IN
       /\ wi' = w
       /\ obs' = [obs EXCEPT !.queries = @ + 1,
                             !.closedCall = @ \/ ~proc.open]
       /\ CASE w.status = "returned" ->
                 call' = [call EXCEPT !.pc = IF call.op = "waitItem" THEN "done" ELSE "act",
                                      !.elm = WaitItemStep(wi.item, ans).elm]
            [] w.status = "sleeping" -> call' = [call EXCEPT !.pc = "sleep"]
            [] OTHER -> call' = [call EXCEPT !.pc = "failed", !.err = w.err]
  /\ UNCHANGED <<astros, arrays, proc, signal, waitings, clock, itemHeap, compiled>>

\* the 200 ms wait of that waitItem has elapsed
PollWake ==
  /\ call.pc = "sleep"
  /\ obs.waits < MaxWaits
  /\ call' = [call EXCEPT !.pc = "poll"]
  /\ wi' = WaitItemWake(wi)
  /\ obs' = [obs EXCEPT !.waits = @ + 1]
  /\ UNCHANGED <<astros, arrays, proc, signal, waitings, clock, itemHeap, compiled>>

\* what the helper does with the element: elm.evaluate / elm.click / elm.type.
\* In getValueOfAttribute `.value` of undefined throws in the page, `.value` of
\* an Attr is its string, `.value` of any other member is undefined.
ActOutcome(op, ans, open) ==
  IF ~ans.ok THEN [err |-> Rejection(open), ret |-> <<>>]
  ELSE IF op = "getValueOfAttribute"
  THEN CASE ans.lookup = "undefined" -> [err |-> "TypeError", ret |-> <<>>]
         [] ans.lookup = "Attr" -> [err |-> "", ret |-> <<"value">>]
         [] OTHER -> [err |-> "", ret |-> <<"undefined">>]
  ELSE [err |-> "", ret |-> <<>>]

Act ==
  /\ call.pc = "act"
  /\ \E ans \in ActAnswers(call.op, proc.open) :
       LET r == ActOutcome(call.op, ans, proc.open)
           c == [call EXCEPT !.lookup = ans.lookup, !.ret = r.ret]
       IN call' = IF r.err = "" THEN [c EXCEPT !.pc = "done"]
                  ELSE [c EXCEPT !.pc = "failed", !.err = r.err]
  /\ UNCHANGED <<astros, arrays, proc, signal, waitings, clock, wi, obs, itemHeap, compiled>>

\* the caller has its result or its error; the next call can be issued
Settle ==
  /\ call.pc \in {"done", "failed"}
  /\ call' = Idle
  /\ wi' = NoWait
  /\ obs' = NoObs
  /\ clock' = NoClock
  /\ UNCHANGED <<astros, arrays, proc, signal, waitings, itemHeap, compiled>>

\* ---------------------------------------------------------- contentFrame
\* contentFrame pushing item onto the caller's own array and handing that
\* array to the new Astro (mutant)
ContentFrameAlias(a, item) ==
  IF astros[a].chain = 0
  THEN [arrays |-> Append(arrays, <<item>>),
        astros |-> Append(astros, [astros[a] EXCEPT !.chain = Len(arrays) + 1])]
  ELSE [arrays |-> [arrays EXCEPT ![astros[a].chain] = Append(@, item)],
        astros |-> Append(astros, astros[a])]

\* new Astro(this.browser, this.mainPage, [...this._frameSelector ?? [], item],
\* this.session): the heap with the new object and its new array
ContentFrameNew(a, item) ==
  LET old == IF astros[a].chain = 0 THEN <<>> ELSE arrays[astros[a].chain]
  IN [arrays |-> Append(arrays, Append(old, item)),
      astros |-> Append(astros, [browser |-> astros[a].browser, page |-> astros[a].page,
                                 chain |-> Len(arrays) + 1,
                                 session |-> astros[a].session])]

\* contentFrame(item): the getters, the new Astro, then this.getPageOrFrame()
StartContentFrame(a, item) ==
  /\ call.pc = "idle"
  /\ Len(astros) < MaxAstros
  /\ wi' = NoWait
  /\ obs' = NoObs
  /\ IF astros[a].browser = 0
     THEN /\ call' = [Begin("contentFrame", a, item) EXCEPT
                        !.pc = "failed", !.err = "Cannot found browser instance"]
          /\ UNCHANGED <<astros, arrays>>
     ELSE IF astros[a].page = 0
     THEN /\ call' = [Begin("contentFrame", a, item) EXCEPT
                        !.pc = "failed", !.err = "Cannot found page instance"]
          /\ UNCHANGED <<astros, arrays>>
     ELSE /\ astros' = ContentFrameNew(a, item).astros
          /\ arrays' = ContentFrameNew(a, item).arrays
          /\ call' = GpfEnter([Begin("contentFrame", a, item) EXCEPT
                                 !.made = Len(astros) + 1,
                                 !.chain0 = IF astros[a].chain = 0 THEN <<>>
                                            ELSE arrays[astros[a].chain]])
  /\ UNCHANGED <<proc, signal, waitings, clock, itemHeap, compiled>>

\* ------------------------------------------------------------- lifecycle
\* close(): if (this._browser) await this._browser.close()
AstroClose(a, pr) ==
  IF astros[a].browser # 0
  THEN [pr EXCEPT !.closes = @ + 1, !.open = FALSE]
  ELSE pr

Close(a) ==
  /\ proc.closes < MaxCloses
  /\ proc' = AstroClose(a, proc)
  /\ proc' # proc
  /\ UNCHANGED <<astros, arrays, signal, waitings, call, wi, obs, clock, itemHeap, compiled>>

\* the "abort" listener pushing the closing promise whatever the reason (mutant)
AbortListenerAlwaysPush(a, reason, st) ==
  LET pr == IF astros[a].browser # 0
            THEN [st.proc EXCEPT !.closes = @ + 1, !.open = FALSE]
            ELSE st.proc
  IN [proc |-> pr, waitings |-> Append(st.waitings, [astro |-> a, close |-> pr.closes])]

\* the "abort" listener init registers, run for the Astro `a` it closes over:
\* close() is called, and its promise is pushed onto reason.waitings when the
\* reason is an AbortedError
AbortListener(a, reason, st) ==
  LET pr == AstroClose(a, st.proc)
  IN [proc |-> pr,
      waitings |-> IF reason = "AbortedError"
                   THEN Append(st.waitings, [astro |-> a, close |-> pr.closes])
                   ELSE st.waitings]

RECURSIVE FireListeners(_, _, _)
FireListeners(ls, reason, st) ==
  IF ls = <<>> THEN st
  ELSE FireListeners(Tail(ls), reason, AbortListener(Head(ls), reason, st))

Reasons == {"AbortedError", "DOMException"}

\* the signal aborts with `reason`: the "abort" event is dispatched once, to the
\* listeners registered so far
Abort(reason) ==
  /\ ~signal.aborted
  /\ signal' = [signal EXCEPT !.aborted = TRUE, !.reason = reason]
  /\ LET st == FireListeners(signal.listeners, reason, [proc |-> proc, waitings |-> waitings])
     IN proc' = st.proc /\ waitings' = st.waitings
  /\ UNCHANGED <<astros, arrays, call, wi, obs, clock, itemHeap, compiled>>

\* option.signal?.addEventListener("abort", ...)
AddAbortListener(sg, a, sig) ==
  IF sig THEN [sg EXCEPT !.listeners = Append(@, a)] ELSE sg

\* init registering its listener before it awaits the launch (mutant)
StartInitListenFirst(a, sig) ==
  /\ call.pc = "idle"
  /\ sig => Len(signal.listeners) < MaxListeners
  /\ wi' = NoWait
  /\ obs' = NoObs
  /\ call' = [Begin("init", a, <<>>) EXCEPT
               !.pc = IF astros[a].browser = 0 THEN "init_launch" ELSE "init_pages"]
  /\ signal' = AddAbortListener(signal, a, sig)
  /\ UNCHANGED <<astros, arrays, proc, waitings, clock, itemHeap, compiled>>

\* init(option) up to its first await: with a browser already set there is no
\* launch and the listener is registered at once
StartInit(a, sig) ==
  /\ call.pc = "idle"
  /\ sig => Len(signal.listeners) < MaxListeners
  /\ wi' = NoWait
  /\ obs' = NoObs
  /\ IF astros[a].browser = 0
     THEN /\ call' = [Begin("init", a, <<>>) EXCEPT !.sig = sig, !.pc = "init_launch"]
          /\ signal' = signal
     ELSE /\ call' = [Begin("init", a, <<>>) EXCEPT !.sig = sig, !.pc = "init_pages"]
          /\ signal' = AddAbortListener(signal, a, sig)
  /\ UNCHANGED <<astros, arrays, proc, waitings, clock, itemHeap, compiled>>

\* await puppeteer.launch(...) resolves; then the listener is registered
InitLaunched ==
  /\ call.pc = "init_launch"
  /\ proc' = [proc EXCEPT !.launches = @ + 1, !.open = TRUE]
  /\ astros' = [astros EXCEPT ![call.self].browser = proc.launches + 1]
  /\ signal' = AddAbortListener(signal, call.self, call.sig)
  /\ call' = [call EXCEPT !.pc = "init_pages"]
  /\ UNCHANGED <<arrays, waitings, wi, obs, clock, itemHeap, compiled>>

\* this._frameSelector = []: the field of Astro a refers to a new, empty
\* array. The array it referred to is garbage when no other Astro refers to
\* it, and the new array takes its place on the heap.
FreshChain(a) ==
  LET old == astros[a].chain
      shared == \E b \in 1..Len(astros) : b # a /\ astros[b].chain = old
  IN IF old # 0 /\ ~shared
     THEN [arrays |-> [arrays EXCEPT ![old] = <<>>], ref |-> old]
     ELSE [arrays |-> Append(arrays, <<>>), ref |-> Len(arrays) + 1]

\* await this.browser.pages(); _mainPage ??= pages.at(0) ?? newPage();
\* this._frameSelector = []
InitPages ==
  /\ call.pc = "init_pages"
  /\ IF ~proc.open
     THEN /\ call' = [call EXCEPT !.pc = "failed", !.err = "SessionClosed"]
          /\ UNCHANGED <<astros, arrays>>
     ELSE /\ arrays' = FreshChain(call.self).arrays
          /\ astros' = [astros EXCEPT
                          ![call.self].page = IF @ = 0 THEN astros[call.self].browser ELSE @,
                          ![call.self].chain = FreshChain(call.self).ref]
          /\ call' = [call EXCEPT !.pc = "init_session"]
  /\ UNCHANGED <<proc, signal, waitings, wi, obs, clock, itemHeap, compiled>>

\* this.session = this.session ?? await this.mainPage.target().createCDPSession()
InitSession ==
  /\ call.pc = "init_session"
  /\ IF ~proc.open
     THEN /\ call' = [call EXCEPT !.pc = "failed", !.err = "SessionClosed"]
          /\ astros' = astros
     ELSE /\ astros' = [astros EXCEPT
                          ![call.self].session = IF @ = 0 THEN astros[call.self].page ELSE @]
          /\ call' = [call EXCEPT !.pc = "init_goto"]
  /\ UNCHANGED <<arrays, proc, signal, waitings, wi, obs, clock, itemHeap, compiled>>

\* setDownloadBehavior, await setViewport, await goto; return this
InitGoto ==
  /\ call.pc = "init_goto"
  /\ call' = IF proc.open THEN [call EXCEPT !.pc = "done"]
             ELSE [call EXCEPT !.pc = "failed", !.err = "SessionClosed"]
  /\ UNCHANGED <<astros, arrays, proc, signal, waitings, wi, obs, clock, itemHeap, compiled>>

\* -------------------------------------------------------------- waitLoad
\* the "response" listener without its clearTimeout (mutant)
OnResponseNoClear(ck) ==
  [ck EXCEPT !.pending = @ \cup {ck.now + QuietWindow},
             !.timer = {ck.now + QuietWindow}]

\* the "response" listener: clearTimeout(timer); timer = setTimeout(handler, t)
OnResponse(ck) ==
  [ck EXCEPT !.pending = (@ \ ck.timer) \cup {ck.now + QuietWindow},
             !.timer = {ck.now + QuietWindow}]

\* waitLoad(): this.mainPage.on("response", ...) inside the promise executor;
\* no timer is armed here
StartWaitLoad(a) ==
  /\ call.pc = "idle"
  /\ call' = IF astros[a].page = 0
             THEN [Begin("waitLoad", a, <<>>) EXCEPT
                     !.pc = "failed", !.err = "Cannot found page instance"]
             ELSE [Begin("waitLoad", a, <<>>) EXCEPT !.pc = "loading"]
  /\ clock' = NoClock
  /\ wi' = NoWait
  /\ obs' = NoObs
  /\ UNCHANGED <<astros, arrays, proc, signal, waitings, itemHeap, compiled>>

\* the page emits a response event (the listener is never removed)
Response ==
  /\ call.op = "waitLoad"
  /\ call.pc \in {"loading", "done"}
  /\ proc.open
  /\ Len(clock.events) < MaxResponses
  /\ clock' = [OnResponse(clock) EXCEPT
                 !.events = IF clock.resolvedAt = {} THEN Append(@, clock.now) ELSE @]
  /\ UNCHANGED <<astros, arrays, proc, signal, waitings, call, wi, obs, itemHeap, compiled>>

\* a timer is due: handler() calls r(), which settles the promise once
TimerFire ==
  /\ call.op = "waitLoad"
  /\ \E d \in clock.pending :
       /\ d <= clock.now
       /\ clock' = [clock EXCEPT !.pending = @ \ {d},
                                 !.resolvedAt = IF @ = {} THEN {clock.now} ELSE @]
  /\ call' = IF call.pc = "loading" THEN [call EXCEPT !.pc = "done"] ELSE call
  /\ UNCHANGED <<astros, arrays, proc, signal, waitings, wi, obs, itemHeap, compiled>>

\* time passes while the promise is pending, never past a timer that is due
Tick ==
  /\ call.op = "waitLoad"
  /\ call.pc = "loading"
  /\ clock.now < MaxTime
  /\ \A d \in clock.pending : d > clock.now
  /\ clock' = [clock EXCEPT !.now = SetMin({clock.now + ClockStep, MaxTime} \cup clock.pending)]
  /\ UNCHANGED <<astros, arrays, proc, signal, waitings, call, wi, obs, itemHeap, compiled>>

\* ------------------------------------------------------------ class Item
\* A string is a sequence of characters; an optional field is <<>> while
\* undefined and <<s>> once set to the string s; deep is 0 or an Item.
NewItem ==
  [matchText |-> <<>>, cssSelectorTagName |-> <<>>, cssSelectorId |-> <<>>,
   cssSelectorClassNames |-> <<>>, cssSelectorAttributes |-> <<>>, deep |-> 0]

NoCompile == [item |-> 0, ok |-> TRUE, out |-> <<>>, n |-> 0, first |-> <<>>]

\* arguments of the builder calls
TagNames == {<<"a">>}
Ids == {<<"a">>}
ClassNames == {<<"a">>, <<"b">>}
AttributeNames == {<<"a">>}
AttributeValues == {<<>>, <<<<>>>>, <<<<"a", "\"">>>>}

RECURSIVE PartsUpTo(_, _)
PartsUpTo(h, n) ==
  IF n = 0 THEN 0
  ELSE PartsUpTo(h, n - 1)
       + Len(h[n].matchText) + Len(h[n].cssSelectorTagName) + Len(h[n].cssSelectorId)
       + Len(h[n].cssSelectorClassNames) + Len(h[n].cssSelectorAttributes)
       + (IF h[n].deep = 0 THEN 0 ELSE 1)

Parts(h) == PartsUpTo(h, Len(h))

\* a builder method has run: the receiver's field is written, `return this`
Built1(h) ==
  /\ Parts(h) <= MaxParts
  /\ itemHeap' = h
  /\ compiled' = NoCompile
  /\ UNCHANGED <<astros, arrays, proc, signal, waitings, call, wi, obs, clock>>

WithDeep(i, j) == Built1([itemHeap EXCEPT ![i].deep = j])

ByID(i, value) == Built1([itemHeap EXCEPT ![i].cssSelectorId = <<value>>])

WithTagName(i, name) == Built1([itemHeap EXCEPT ![i].cssSelectorTagName = <<name>>])

WithText(i, matchText) == Built1([itemHeap EXCEPT ![i].matchText = <<matchText>>])

WithClassNames(i, className) ==
  Built1([itemHeap EXCEPT ![i].cssSelectorClassNames = Append(@, className)])

WithAttribute(i, name, value) ==
  Built1([itemHeap EXCEPT ![i].cssSelectorAttributes = Append(@, <<name, value>>)])

\* truthiness of a string | undefined: neither undefined nor ""
Truthy(opt) == opt # <<>> /\ opt[1] # <<>>

RECURSIVE JoinWith(_, _)
\* Array.prototype.join(sep)
JoinWith(ss, sep) ==
  IF ss = <<>> THEN <<>>
  ELSE IF Len(ss) = 1 THEN ss[1]
  ELSE ss[1] \o sep \o JoinWith(Tail(ss), sep)

\* JSON.stringify of a string: quoted, with " and \ escaped by a backslash
JSONStringify(str) ==
  LET esc(c) == IF c \in {"\"", "\\"} THEN <<"\\", c>> ELSE <<c>>
  IN <<"\"">> \o JoinWith([k \in 1..Len(str) |-> esc(str[k])], <<>>) \o <<"\"">>

\* the callback of cssSelectorAttributes.map: V is empty unless the value is
\* truthy, G is empty unless the name is truthy
AttributeSelector(attr) ==
  LET V == IF Truthy(attr[2]) THEN <<"=">> \o JSONStringify(attr[2][1]) ELSE <<>>
  IN IF attr[1] # <<>> THEN <<"[">> \o attr[1] \o V \o <<"]">> ELSE <<>>

RECURSIVE ToCSSSelector(_, _, _)
\* toCSSSelector() of Item i. The template literal converts the array
\* attributesSelectors with Array.prototype.toString, which joins with ",".
\* `seen` are the Items whose toCSSSelector is on the stack: a deep chain
\* that comes back to one of them recurses until the stack overflows.
ToCSSSelector(h, i, seen) ==
  IF i \in seen THEN [ok |-> FALSE, str |-> <<>>]
  ELSE
    LET it == h[i]
        classNameSelectors ==
          JoinWith([k \in 1..Len(it.cssSelectorClassNames) |->
                      <<".">> \o it.cssSelectorClassNames[k]], <<>>)
        idSelector ==
          IF Truthy(it.cssSelectorId) THEN <<"#">> \o it.cssSelectorId[1] ELSE <<>>
        tagNameSelector ==
          IF it.cssSelectorTagName = <<>> THEN <<>> ELSE it.cssSelectorTagName[1]
        attributesSelectors ==
          [k \in 1..Len(it.cssSelectorAttributes) |->
             AttributeSelector(it.cssSelectorAttributes[k])]
        deep == IF it.deep = 0 THEN [ok |-> TRUE, str |-> <<>>]
                ELSE ToCSSSelector(h, it.deep, seen \cup {i})
        deepSelector == IF it.deep = 0 THEN <<>> ELSE <<" ">> \o deep.str
    IN IF ~deep.ok THEN deep
       ELSE [ok |-> TRUE,
             str |-> tagNameSelector \o idSelector \o classNameSelectors
                     \o JoinWith(attributesSelectors, <<",">>) \o deepSelector]

\* toCSSSelector() emptying the class list it has rendered (mutant)
HeapAfterCompileDrained(h, i) == [h EXCEPT ![i].cssSelectorClassNames = <<>>]

\* the Items after toCSSSelector() of Item i: the method and its recursive
\* calls assign to no field
HeapAfterCompile(h, i) == h

\* item.toCSSSelector() is called; `n` counts the calls made in a row on the
\* same Item (up to 2), `first` is what the first of them gave
Compile(i) ==
  LET r == ToCSSSelector(itemHeap, i, {})
      again == compiled.item = i
  IN /\ compiled' = [item |-> i, ok |-> r.ok, out |-> r.str,
                      n |-> IF again THEN 2 ELSE 1,
                      first |-> IF again THEN compiled.first ELSE r.str]
     /\ itemHeap' = HeapAfterCompile(itemHeap, i)
     /\ UNCHANGED <<astros, arrays, proc, signal, waitings, call, wi, obs, clock>>

\* ---------------------------------------------------------- initial states
NoSignal == [aborted |-> FALSE, reason |-> "", listeners |-> <<>>]

\* new Astro(), or new Astro(undefined, undefined, [item]): nothing launched
InitFresh ==
  /\ \E ch \in {<<>>} \cup {<<<<i>>>> : i \in Items} :
       /\ arrays = ch
       /\ astros = <<[browser |-> 0, page |-> 0, chain |-> Len(ch), session |-> 0]>>
  /\ proc = [launches |-> 0, closes |-> 0, open |-> FALSE]
  /\ signal = NoSignal
  /\ waitings = <<>>
  /\ call = Idle
  /\ wi = NoWait
  /\ obs = NoObs
  /\ clock = NoClock
  /\ itemHeap = <<>>
  /\ compiled = NoCompile

RECURSIVE Chains(_)
Chains(n) ==
  IF n = 0 THEN {<<>>}
  ELSE Chains(n - 1) \cup {Append(c, i) : c \in {x \in Chains(n - 1) : Len(x) = n - 1}, i \in Items}

\* a context after init(option with signal), and the contexts contentFrame
\* derived from it one frame at a time along the chain ch
Built(ch) ==
  /\ arrays = [k \in 1..(Len(ch) + 1) |-> SubSeq(ch, 1, k - 1)]
  /\ astros = [k \in 1..(Len(ch) + 1) |-> [browser |-> 1, page |-> 1, chain |-> k, session |-> 1]]
  /\ proc = [launches |-> 1, closes |-> 0, open |-> TRUE]
  /\ signal = [NoSignal EXCEPT !.listeners = <<1>>]
  /\ waitings = <<>>
  /\ call = Idle
  /\ wi = NoWait
  /\ obs = NoObs
  /\ clock = NoClock
  /\ itemHeap = <<>>
  /\ compiled = NoCompile

InitBuilt == \E ch \in Chains(MaxChain) : Built(ch)

InitLoad == Built(<<>>)

\* NItems times new Item(); no Astro
InitItems ==
  /\ itemHeap = [k \in 1..NItems |-> NewItem]
  /\ compiled = NoCompile
  /\ astros = <<>>
  /\ arrays = <<>>
  /\ proc = [launches |-> 0, closes |-> 0, open |-> FALSE]
  /\ signal = NoSignal
  /\ waitings = <<>>
  /\ call = Idle
  /\ wi = NoWait
  /\ obs = NoObs
  /\ clock = NoClock

\* ------------------------------------------------------- specifications
\* the lifecycle of a context: init, close and the abort of the signal
Next ==
  \/ \E a \in 1..Len(astros), sig \in BOOLEAN : StartInit(a, sig)
  \/ InitLaunched
  \/ InitPages
  \/ InitSession
  \/ InitGoto
  \/ \E a \in 1..Len(astros) : Close(a)
  \/ \E reason \in Reasons : Abort(reason)
  \/ Settle

\* frame descent on initialised contexts
NextFrames ==
  \/ \E a \in 1..Len(astros), item \in Items : StartContentFrame(a, item)
  \/ \E a \in 1..Len(astros) : StartGetPageOrFrame(a)
  \/ WalkStart
  \/ WalkPoll
  \/ WalkItemWake
  \/ WalkFrame
  \/ WalkBackoffWake
  \/ Settle

\* resolution and interaction on initialised contexts, under cancellation
NextResolve ==
  \/ \E reason \in Reasons : Abort(reason)
  \/ \E a \in 1..Len(astros) : StartGetPageOrFrame(a)
  \/ \E op \in ResolveOps, a \in 1..Len(astros), item \in Items : StartResolve(op, a, item)
  \/ WalkStart
  \/ WalkPoll
  \/ WalkItemWake
  \/ WalkFrame
  \/ WalkBackoffWake
  \/ Poll
  \/ PollWake
  \/ Act
  \/ Settle

\* waitLoad and the clock
NextLoad ==
  \/ \E a \in 1..Len(astros) : StartWaitLoad(a)
  \/ Response
  \/ TimerFire
  \/ Tick
  \/ Settle

\* the operations of a context on which init has not run
NextFresh ==
  \/ \E a \in 1..Len(astros) : GetBrowser(a)
  \/ \E a \in 1..Len(astros) : GetMainPage(a)
  \/ \E a \in 1..Len(astros) : StartGetPageOrFrame(a)
  \/ \E op \in ResolveOps, a \in 1..Len(astros), item \in Items : StartResolve(op, a, item)
  \/ \E a \in 1..Len(astros), item \in Items : StartContentFrame(a, item)
  \/ \E a \in 1..Len(astros) : StartWaitLoad(a)
  \/ WalkStart
  \/ WalkBackoffWake
  \/ Settle

\* the selector builder
NextItems ==
  \/ \E i \in 1..Len(itemHeap), j \in 1..Len(itemHeap) : WithDeep(i, j)
  \/ \E i \in 1..Len(itemHeap), value \in Ids : ByID(i, value)
  \/ \E i \in 1..Len(itemHeap), name \in TagNames : WithTagName(i, name)
  \/ \E i \in 1..Len(itemHeap) : WithText(i, Pattern)
  \/ \E i \in 1..Len(itemHeap), className \in ClassNames : WithClassNames(i, className)
  \/ \E i \in 1..Len(itemHeap), name \in AttributeNames, value \in AttributeValues :
       WithAttribute(i, name, value)
  \/ \E i \in 1..Len(itemHeap) : Compile(i)

\* from construction
Spec == InitFresh /\ [][Next]_vars

\* from an initialised context and its derived contexts
SpecFrames == InitBuilt /\ [][NextFrames]_vars

SpecBuilt == InitBuilt /\ [][NextResolve]_vars

SpecLoad == InitLoad /\ [][NextLoad]_vars

SpecFresh == InitFresh /\ [][NextFresh]_vars

SpecItems == InitItems /\ [][NextItems]_vars

\* ------------------------------------------------------------------ claims
ItemsOf(pass) == [k \in 1..Len(pass) |-> pass[k].item]

\* C1: static waitItem on an item without matchText: every poll that finds no
\* element is followed by exactly one 200 ms wait and another poll; when poll
\* N+1 is the first to give an element, that element is returned after N waits
\* (N * 200 ms) and N+1 queries; the loop ends otherwise only by a rejected
\* query, never by a not-found failure.
C1_WaitItemRetries ==
  (wi.status # "none" /\ wi.item.matchText = NoText) =>
    /\ wi.status \in {"polling", "sleeping", "returned", "threw"}
    /\ wi.slept = wi.waits * Backoff
    /\ wi.misses = wi.waits + (IF wi.status = "sleeping" THEN 1 ELSE 0)
    /\ wi.status = "polling" => wi.queries = wi.waits
    /\ wi.status = "returned" =>
         /\ wi.queries = wi.waits + 1
         /\ wi.last.ok /\ Len(wi.last.cands) = 1
         /\ call.elm = <<wi.last.cands[1].id>>
    /\ wi.status = "threw" => ~wi.last.ok

\* the element appears on the third poll of waitItem(item) and is returned
C1_Witness ==
  /\ call.op = "waitItem" /\ call.pc = "done"
  /\ wi.item.matchText = NoText
  /\ wi.waits = 2 /\ wi.queries = 3 /\ wi.slept = 400
  /\ call.elm = <<2>>

\* C2: once a resolution loop (the element loop of static waitItem, the walk
\* of getPageOrFrame) has made a protocol call on the closed browser, the call
\* it serves has ended with the session-closed error.
C2_ClosedLoopTerminates ==
  obs.closedCall => (call.pc = "failed" /\ call.err = "SessionClosed")

\* C3: once contentFrame() of a chain entry's element has been absent, the
\* call has failed with that error: no later entry is resolved, no retry.
C3_NoFrameFails ==
  obs.noFrame => (call.pc = "failed" /\ call.err = "Failed get content frame")

\* C4: when contentFrame(item) returns, the frame resolution it performed
\* walked the chain of the new Astro, the appended item included.
C4_ContentFrameValidates ==
  (call.op = "contentFrame" /\ call.pc = "done") =>
    ItemsOf(obs.pass) = Chain(call.made)

\* C5: the Astro built by contentFrame(item) has the caller's chain followed by
\* item and the caller's browser, page and session, the caller keeps the chain
\* it had when the call was made, and no contentFrame call changes any Astro
\* or chain that existed before it.
C5_State ==
  (call.op = "contentFrame" /\ call.made # 0) =>
    /\ call.made = Len(astros) /\ call.made # call.self
    /\ HasChain(call.made)
    /\ Chain(call.made) = Append(call.chain0, call.item)
    /\ HasChain(call.self) => Chain(call.self) = call.chain0
    /\ astros[call.made].chain # astros[call.self].chain
    /\ astros[call.made].browser = astros[call.self].browser
    /\ astros[call.made].page = astros[call.self].page
    /\ astros[call.made].session = astros[call.self].session

C5_Step ==
  (call'.op = "contentFrame" /\ call.pc = "idle") =>
    \A b \in 1..Len(astros) :
      /\ b <= Len(astros') /\ astros'[b] = astros[b]
      /\ HasChain(b) => arrays'[astros[b].chain] = arrays[astros[b].chain]

C5_ContentFrameCopies == []C5_State /\ [][C5_Step]_vars

\* contentFrame called on a derived Astro has returned a third Astro
C5_Witness ==
  /\ call.op = "contentFrame" /\ call.pc = "done"
  /\ call.self = 2 /\ call.made = 3
  /\ Len(Chain(2)) = 1 /\ Len(Chain(3)) = 2 /\ Chain(1) = <<>>

\* C6: with at least one response observed, waitLoad resolves exactly 2000 ms
\* after the last response before it, and stays pending, with exactly the one
\* timer of the last response armed, until then.
C6_QuietWindowAfterLast ==
  LET n == Len(clock.events) IN
  (call.op = "waitLoad" /\ n >= 1) =>
    /\ clock.resolvedAt # {} => clock.resolvedAt = {clock.events[n] + QuietWindow}
    /\ call.pc = "loading" =>
         /\ clock.resolvedAt = {}
         /\ clock.pending = {clock.events[n] + QuietWindow}
         /\ clock.now <= clock.events[n] + QuietWindow

\* responses at 0, 1000 and 1800: resolved at 3800
C6_Witness ==
  /\ call.op = "waitLoad" /\ call.pc = "done"
  /\ clock.events = <<0, 1000, 1800>>
  /\ clock.resolvedAt = {3800}

\* C7: a waitLoad that has observed no response is not pending any more once
\* the quiet window has elapsed.
C7_ResolvesWithoutResponse ==
  (call.op = "waitLoad" /\ call.pc = "loading" /\ clock.events = <<>>) =>
    clock.now <= QuietWindow

\* C8: a query rejected while the browser is alive never fails the call that
\* is resolving the element.
C8_QueryErrorSwallowed ==
  ~(call.pc = "failed" /\ wi.status = "threw" /\ call.err = "Transient")

C9_Step ==
  (~signal.aborted /\ signal'.aborted) =>
    LET n == Len(signal.listeners) IN
    /\ proc'.closes = proc.closes + n
    /\ proc'.launches = proc.launches
    /\ n >= 1 => ~proc'.open
    /\ n = 0 => proc' = proc
    /\ waitings' =
         IF signal'.reason = "AbortedError"
         THEN waitings \o [k \in 1..n |-> [astro |-> signal.listeners[k],
                                          close |-> proc.closes + k]]
         ELSE waitings

C10_LaunchOnceCloseOnce == proc.launches <= 1 /\ proc.closes <= 1

\* C11: when getValueOfAttribute has resolved its element and the lookup of the
\* attribute on it did not give an Attr (the element lacks the attribute), the
\* call has failed with an error and returned no value.
C11_AbsentAttributeFails ==
  (call.op = "getValueOfAttribute" /\ call.lookup \in {"undefined", "member"}) =>
    (call.pc = "failed" /\ call.err # "" /\ call.ret = <<>>)

\* the candidates of the answer `ans` whose text matches the pattern of item
TextHits(item, ans) ==
  {i \in 1..Len(ans.cands) :
     ans.cands[i].text # Undefined /\ Match(ans.cands[i].text, item.matchText)}

\* C12: a poll of waitItem for an item with matchText whose query was answered
\* returns the first candidate in document order whose text matches the
\* pattern, and counts as not-found (200 ms wait) when no candidate's text
\* matches.
C12_FirstTextMatch ==
  (/\ wi.status \in {"returned", "sleeping", "threw"}
   /\ wi.item.matchText # NoText
   /\ wi.last.ok) =>
    IF TextHits(wi.item, wi.last) = {}
    THEN wi.status = "sleeping"
    ELSE /\ wi.status = "returned"
         /\ call.elm = <<wi.last.cands[SetMin(TextHits(wi.item, wi.last))].id>>

RECURSIVE Reference(_, _)
\* the reference compilation of Item i: tag, #id, each .class, each attribute
\* bracket, nothing between them, then a space and the compiled deep Item
Reference(h, i) ==
  LET it == h[i] IN
  (IF it.cssSelectorTagName = <<>> THEN <<>> ELSE it.cssSelectorTagName[1])
  \o (IF Truthy(it.cssSelectorId) THEN <<"#">> \o it.cssSelectorId[1] ELSE <<>>)
  \o JoinWith([k \in 1..Len(it.cssSelectorClassNames) |->
                 <<".">> \o it.cssSelectorClassNames[k]], <<>>)
  \o JoinWith([k \in 1..Len(it.cssSelectorAttributes) |->
                 AttributeSelector(it.cssSelectorAttributes[k])], <<>>)
  \o (IF it.deep = 0 THEN <<>> ELSE <<" ">> \o Reference(h, it.deep))

\* C13: what toCSSSelector() returns is the reference compilation of its Item,
\* for any number of class names and attributes.
C13_EqualsReference ==
  (compiled.item # 0 /\ compiled.ok) =>
    compiled.out = Reference(itemHeap, compiled.item)

\* the bracket an attribute constraint is to be rendered as: [name=<quoted,
\* escaped value>] when a value is present, [name] when it is none
Bracket(attr) ==
  IF attr[2] # <<>>
  THEN <<"[">> \o attr[1] \o <<"=">> \o JSONStringify(attr[2][1]) \o <<"]">>
  ELSE <<"[">> \o attr[1] \o <<"]">>

\* C14: the compiled selector holds, for every attribute constraint of the
\* Item, [name=<quoted, escaped value>] when its value is present (the empty
\* string included) and [name] when its value is none.
C14_ValueRendered ==
  (compiled.item # 0 /\ compiled.ok) =>
    \A k \in 1..Len(itemHeap[compiled.item].cssSelectorAttributes) :
      Match(compiled.out, Bracket(itemHeap[compiled.item].cssSelectorAttributes[k]))

\* C15: toCSSSelector() changes no field of any Item, a second call in a row
\* on the same Item gives what the first gave, and an Item with no field set
\* compiles to the empty string.
C15_State ==
  /\ compiled.n = 2 => compiled.out = compiled.first
  /\ (compiled.item # 0 /\ itemHeap[compiled.item] = NewItem) =>
       (compiled.ok /\ compiled.out = <<>>)

C15_Step == compiled'.item # 0 => itemHeap' = itemHeap

C16_UninitialisedFailsFast ==
  (call.op \notin {"none", "init"}
   /\ (astros[call.self].browser = 0 \/ astros[call.self].page = 0)) =>
    (call.pc # "walk_backoff" /\ obs.waits = 0 /\ call.pc # "done")

\* C17: getPageOrFrame on an initialised Astro whose chain is empty issues no
\* query and waits for no retry, does not fail, and what it returns is the
\* top-level page.
C17_EmptyChainReturnsPage ==
  (/\ call.op = "getPageOrFrame"
   /\ astros[call.self].page # 0
   /\ HasChain(call.self) /\ Chain(call.self) = <<>>) =>
    /\ call.pc \in {"walk_start", "done"}
    /\ obs.queries = 0 /\ obs.waits = 0
    /\ call.rel = 0

\* getPageOrFrame has returned the page on the root context, the browser
\* being closed
C17_Witness ==
  /\ call.op = "getPageOrFrame" /\ call.pc = "done"
  /\ call.self = 1 /\ Chain(1) = <<>>
  /\ call.rel = 0 /\ obs = NoObs
  /\ ~proc.open

\* the positions of a call inside the for loop of getPageOrFrame
Walking == {"walk_poll", "walk_item_sleep", "walk_frame"}

\* every step of the pass went from the frame the step before it had reached
\* (the top-level page for the first) into a nested frame
Linked(pass) ==
  \A k \in 1..Len(pass) :
    /\ pass[k].frame = (IF k = 1 THEN 0 ELSE pass[k - 1].into)
    /\ pass[k].into \in 1..NFrames

\* C18: in getPageOrFrame with a non-empty chain, a failure inside the walk
\* leads to one 200 ms wait and then to a walk that starts again at the first
\* chain entry on the top-level page with nothing kept; the walk in progress
\* has resolved, in order, the entries before the current one, each inside the
\* frame of the entry before it, and the frame returned is the product of one
\* such pass over the whole chain.
C18_State ==
  /\ call.pc \in Walking =>
       LET n == Len(obs.pass) IN
       /\ call.idx = n + 1 /\ call.idx <= Len(arrays[call.p])
       /\ ItemsOf(obs.pass) = SubSeq(arrays[call.p], 1, n)
       /\ Linked(obs.pass)
       /\ call.rel = (IF n = 0 THEN 0 ELSE obs.pass[n].into)
       /\ wi.item = arrays[call.p][call.idx] /\ wi.frame = call.rel
  /\ (call.op \in {"getPageOrFrame", "contentFrame"} /\ call.pc = "done") =>
       LET n == Len(obs.pass) IN
       /\ ItemsOf(obs.pass) = arrays[call.p]
       /\ Linked(obs.pass)
       /\ call.rel = (IF n = 0 THEN 0 ELSE obs.pass[n].into)

C18_Step ==
  /\ (call.pc \in Walking /\ call'.pc \notin Walking \cup {"done", "poll"}) =>
       call'.pc = "walk_backoff"
  /\ (call.pc = "walk_backoff" /\ call'.pc # "walk_backoff") =>
       (call'.pc = "walk_start" /\ obs'.waits = obs.waits + 1)
  /\ (call.pc = "walk_start" /\ call'.pc = "walk_poll") =>
       /\ call'.idx = 1 /\ call'.rel = 0 /\ obs'.pass = <<>>
       /\ wi'.item = arrays[call.p][1] /\ wi'.frame = 0

C18_FailureRestartsWalk == []C18_State /\ [][C18_Step]_vars

\* getPageOrFrame on a chain of two entries has returned a frame after an
\* element without a nested frame made it wait once and walk again
C18_Witness ==
  /\ call.op = "getPageOrFrame" /\ call.pc = "done"
  /\ Len(arrays[call.p]) = 2 /\ Len(obs.pass) = 2
  /\ obs.noFrame /\ obs.waits = 1
  /\ call.rel = 1

\* C19: the listener of an init is registered only once the browser it closes
\* is set, never while that init awaits the launch; an abort that finds no
\* listener invokes no close(), exposes no promise and leaves init where it
\* is; registering a listener on a signal that has aborted runs no close();
\* and an init fails only on a browser somebody closed.
C19_State ==
  /\ \A k \in 1..Len(signal.listeners) : astros[signal.listeners[k]].browser # 0
  /\ call.pc = "init_launch" =>
       \A k \in 1..Len(signal.listeners) : signal.listeners[k] # call.self
  /\ (call.op = "init" /\ call.pc = "failed") => proc.closes >= 1

C19_Step ==
  /\ (~signal.aborted /\ signal'.aborted /\ signal.listeners = <<>>) =>
       (proc' = proc /\ waitings' = waitings /\ call' = call /\ astros' = astros)
  /\ (~signal.aborted /\ signal'.aborted /\ proc'.closes > proc.closes) =>
       signal.listeners # <<>>
  /\ (signal.aborted /\ signal'.listeners # signal.listeners) =>
       (proc'.closes = proc.closes /\ (proc.open => proc'.open)
        /\ waitings' = waitings /\ call'.pc = "init_pages")

C19_AbortBeforeListener == []C19_State /\ [][C19_Step]_vars

\* the signal aborted before init registered its listener: init has completed
\* on a browser that is open and that nothing closed
C19_Witness ==
  /\ signal.aborted /\ signal.listeners = <<1>>
  /\ call.op = "init" /\ call.pc = "done" /\ call.sig
  /\ proc.launches = 1 /\ proc.closes = 0 /\ proc.open
  /\ astros[1].page # 0 /\ astros[1].session # 0
  /\ waitings = <<>>

====
